---- MODULE Spec2Model ----
(***************************************************************************)
(* A model of the CV / cover-letter generation pipeline of src/src/app.py: *)
(* name sanitisation, LaTeX escaping, path rewriting, marker injection,    *)
(* the latexmk -> pdflatex x2 compilation and its cleanup, and job-folder  *)
(* creation by the generation workers.                                     *)
(*                                                                         *)
(* Text is a sequence of one-character strings.  Each component has its    *)
(* own variables and its own specification; a specification leaves the     *)
(* variables of the other components at their idle values.                 *)
(***************************************************************************)
EXTENDS Integers, Sequences, FiniteSets, TLC

VARIABLES
    esc_in,      \* latex_escape: the text passed in
    esc_out,     \* latex_escape: the text returned, NotRun before the call
    san_a,       \* sanitize_name: first input
    san_b,       \* sanitize_name: second input
    slug_a,      \* sanitize_name(san_a), NotRun before the call
    slug_b,      \* sanitize_name(san_b), NotRun before the call
    rw_orig,     \* rewrite: the staged document as copied from the template
    rw_doc,      \* rewrite: the staged document on disk
    rw_once,     \* rewrite: the document after the first call, NotRun before it
    rw_utf8,     \* rewrite: whether the document decodes as UTF-8
    rw_calls,    \* rewrite: calls of rewrite_module_inputs_to_absolute so far
    c_pc,        \* compile_latex: "idle", "start", "pdflatex", "success", "except", "done"
    c_args,      \* compile_latex: [tex, open_pdf, clean_files]
    c_tools,     \* which of "latexmk", "pdflatex" are installed
    c_files,     \* extensions e for which <dir>/<basename>e exists
    c_latexmk,   \* outcome of try_latexmk: "not_tried", "missing", "spawn_error", "failed", "ok"
    c_passes,    \* exit codes of the pdflatex processes that ran, in order
    c_rc,        \* compile_with_pdflatex: its variable rc
    c_exc,       \* the exception raised inside the try block, NoException if none
    c_cleanup,   \* [before, failed]: files before clean_latex_junk, removals that failed
    c_result,    \* what compile_latex returned (or raised), NoResult before
    c_locked,    \* extensions of the files os.remove cannot remove
    id_to_path,  \* the registry's mapping from module id to module path
    in_pc,       \* customise_*_content: "idle", "ready", "compiling", "done"
    in_call,     \* its arguments: [fn, text, selected_ids, compile_opt, clean_opt, is_raw]
    in_orig,     \* the lines of the staged document before the call, NoFile if absent
    in_file,     \* the lines of the staged document on disk, NoFile if absent
    in_disk,     \* the module paths that exist on disk
    in_ui,       \* [missing, warned]: ids reported missing, marker warning shown
    in_writes,   \* calls of write_file
    in_ret,      \* the value returned: "none" before, then "True" or "False"
    fs_dirs,     \* the directories that exist under jobs/: <<company>> and <<company, leaf>>
    tpl_cv,      \* whether base/cv.tex exists
    tpl_cl,      \* whether base/cover_letter.tex exists
    jobs,        \* per generation request (worker thread): [pc, company, role, n, job_folder, ...]
    reg_pc,      \* run_app: "idle", "start", "loaded", "exit"
    manifest,    \* the items of base/projects.json, <<>> when the file is absent or empty
    projects,    \* the project list: a sequence of [id, path]
    listbox,     \* the rows of project_listbox, by the id each row shows
    reg_adds     \* calls of add_project_paths so far

\* The value of a result that has not been computed yet (no text equals it).
NotRun == <<"NotRun">>

(***************************************************************************)
(* Bounds of the model.                                                    *)
(***************************************************************************)
MaxTextLen == 2
MaxNameLen == 3
MaxPathLen == 6
MaxLines == 3
MaxIds == 2
MaxJobs == 2
MaxManifest == 2
MaxDrop == 2
MaxAddCalls == 1

(***************************************************************************)
(* The variables of each component, and their values while it is not used. *)
(***************************************************************************)
escVars == <<esc_in, esc_out>>
sanVars == <<san_a, san_b, slug_a, slug_b>>
rwVars == <<rw_orig, rw_doc, rw_once, rw_utf8, rw_calls>>
cVars == <<c_pc, c_args, c_tools, c_files, c_latexmk, c_passes, c_rc, c_exc,
           c_cleanup, c_result, c_locked>>
inVars == <<id_to_path, in_pc, in_call, in_orig, in_file, in_disk, in_ui,
            in_writes, in_ret>>
jobVars == <<fs_dirs, tpl_cv, tpl_cl, jobs>>
regVars == <<reg_pc, manifest, projects, listbox, reg_adds>>
vars == <<escVars, sanVars, rwVars, cVars, inVars, jobVars, regVars>>
\* What a step of one component leaves unchanged.
notEscape == <<sanVars, rwVars, cVars, inVars, jobVars, regVars>>
notSanitize == <<escVars, rwVars, cVars, inVars, jobVars, regVars>>
notRewrite == <<escVars, sanVars, cVars, inVars, jobVars, regVars>>
notCompile == <<escVars, sanVars, rwVars, inVars, jobVars, regVars>>
notInject == <<escVars, sanVars, rwVars, jobVars, regVars>>
notJobs == <<escVars, sanVars, rwVars, cVars, inVars, regVars>>
notRegistry == <<escVars, sanVars, rwVars, cVars, jobVars>>

EscapeIdle == esc_in = <<>> /\ esc_out = NotRun
SanitizeIdle == san_a = <<>> /\ san_b = <<>> /\ slug_a = NotRun /\ slug_b = NotRun
RewriteIdle ==
    rw_orig = <<>> /\ rw_doc = <<>> /\ rw_once = NotRun /\ rw_utf8 = TRUE /\ rw_calls = 0
NoException == "NoException"
NoResult == [kind |-> "none"]
\* The hint None of a success; a failure's hint is <<exception text, log path>>.
NoHint == <<>>
NoCleanup == [before |-> {}, failed |-> {}]
NoArgs == [tex |-> [dir |-> "", base |-> ""], open_pdf |-> FALSE, clean_files |-> FALSE]
CompileIdle ==
    /\ c_pc = "idle" /\ c_args = NoArgs /\ c_tools = {} /\ c_files = {}
    /\ c_latexmk = "not_tried" /\ c_passes = <<>> /\ c_rc = 0 /\ c_exc = NoException
    /\ c_cleanup = NoCleanup /\ c_result = NoResult /\ c_locked = {}
NoFile == <<<<"NoFile">>>>
NoCall == [fn |-> "none"]
NoUi == [missing |-> <<>>, warned |-> FALSE]
InjectIdle ==
    /\ id_to_path = <<>> /\ in_pc = "idle" /\ in_call = NoCall /\ in_orig = NoFile
    /\ in_file = NoFile /\ in_disk = {} /\ in_ui = NoUi /\ in_writes = 0
    /\ in_ret = "none"
JobsIdle == fs_dirs = {} /\ tpl_cv = TRUE /\ tpl_cl = TRUE /\ jobs = <<>>
RegistryIdle ==
    /\ reg_pc = "idle" /\ manifest = <<>> /\ projects = <<>> /\ listbox = <<>>
    /\ reg_adds = 0

(***************************************************************************)
(* Text helpers.                                                           *)
(***************************************************************************)
RECURSIVE Concat(_)
Concat(ss) == IF ss = <<>> THEN <<>> ELSE Head(ss) \o Concat(Tail(ss))

SeqsUpTo(S, n) == UNION {[1..k -> S] : k \in 0..n}

Range(s) == {s[i] : i \in 1..Len(s)}

Letters == {"a", "b", "c", "d", "e", "h", "i", "k", "l", "m", "n", "o", "r",
            "s", "t", "u", "x"}

IsWhitespace(ch) == ch \in {" ", "\t", "\n"}

\* str.strip(): leading and trailing whitespace removed.
RECURSIVE LStrip(_)
LStrip(s) == IF s # <<>> /\ IsWhitespace(Head(s)) THEN LStrip(Tail(s)) ELSE s

RECURSIVE RStrip(_)
RStrip(s) ==
    IF s # <<>> /\ IsWhitespace(s[Len(s)])
    THEN RStrip(SubSeq(s, 1, Len(s) - 1))
    ELSE s

Strip(s) == RStrip(LStrip(s))

DigitChars == <<"1", "2", "3", "4", "5", "6", "7", "8", "9">>

\* str(n) for n >= 1, as an f-string or str() formats it.
RECURSIVE Decimal(_)
Decimal(n) ==
    IF n < 10 THEN <<DigitChars[n]>>
    ELSE Decimal(n \div 10) \o <<IF n % 10 = 0 THEN "0" ELSE DigitChars[n % 10]>>

(***************************************************************************)
(* latex_escape and its table (app.py 134-148).  The last three entries    *)
(* are raw strings written with two backslashes, so each value starts      *)
(* with two backslash characters.                                          *)
(***************************************************************************)
SpecialChars == {"#", "$", "%", "&", "_", "{", "}", "~", "^", "\\"}

LATEX_SPECIALS(ch) ==
    CASE ch = "#" -> <<"\\", "#">>
      [] ch = "$" -> <<"\\", "$">>
      [] ch = "%" -> <<"\\", "%">>
      [] ch = "&" -> <<"\\", "&">>
      [] ch = "_" -> <<"\\", "_">>
      [] ch = "{" -> <<"\\", "{">>
      [] ch = "}" -> <<"\\", "}">>
      [] ch = "~" -> <<"\\", "\\", "t", "e", "x", "t", "a", "s", "c", "i", "i",
                       "t", "i", "l", "d", "e", "{", "}">>
      [] ch = "^" -> <<"\\", "\\", "t", "e", "x", "t", "a", "s", "c", "i", "i",
                       "c", "i", "r", "c", "u", "m", "{", "}">>
      [] ch = "\\" -> <<"\\", "\\", "t", "e", "x", "t", "b", "a", "c", "k",
                        "s", "l", "a", "s", "h", "{", "}">>
      [] OTHER -> <<ch>>

latex_escape(text) == Concat([i \in 1..Len(text) |-> LATEX_SPECIALS(text[i])])

(***************************************************************************)
(* sanitize_name (app.py 79-83).                                           *)
(***************************************************************************)
Lower(ch) == CASE ch = "A" -> "a" [] ch = "B" -> "b" [] OTHER -> ch

SlugChars == Letters \cup {"g", "0", "1", "2", "3", "4", "5", "6", "7", "8", "9", "_", "-"}

\* re.sub(r"[^a-z0-9 _-]+", "", s)
KeepSlugChars(s) == SelectSeq(s, LAMBDA ch : ch \in SlugChars \cup {" "})

\* re.sub(r"\s+", "_", s): every maximal run of whitespace becomes one "_".
RECURSIVE CollapseWhitespace(_)
CollapseWhitespace(s) ==
    IF s = <<>> THEN <<>>
    ELSE IF IsWhitespace(Head(s))
         THEN <<"_">> \o CollapseWhitespace(LStrip(s))
         ELSE <<Head(s)>> \o CollapseWhitespace(Tail(s))

Untitled == <<"u", "n", "t", "i", "t", "l", "e", "d">>

sanitize_name(s) ==
    LET lowered == [i \in 1..Len(Strip(s)) |-> Lower(Strip(s)[i])]
        kept == KeepSlugChars(lowered)
        slug == CollapseWhitespace(kept)
    IN  IF slug = <<>> THEN Untitled ELSE slug

(***************************************************************************)
(* rewrite_module_inputs_to_absolute (app.py 110-131).                     *)
(*                                                                         *)
(* A path is a sequence of pieces: "/", ".", the word "modules" (one       *)
(* piece) and a name character.  A document is a sequence of items: plain  *)
(* text, or a reference \cmd[opts]{arg} with cmd "input" or                *)
(* "includegraphics", opts an option text or NoOpts, and arg a path.       *)
(* pathlib is modelled for a POSIX host without symbolic links.            *)
(***************************************************************************)
NoOpts == <<"NoOpts">>

\* RESOURCE_ROOT (app.py 59-61): an absolute directory, here /r.
RESOURCE_ROOT == <<<<"r">>>>

DotDot == <<".", ".">>

StartsWith(s, p) == Len(s) >= Len(p) /\ SubSeq(s, 1, Len(p)) = p

RECURSIVE LeadingSlashes(_)
LeadingSlashes(s) ==
    IF s # <<>> /\ Head(s) = "/" THEN 1 + LeadingSlashes(Tail(s)) ELSE 0

\* The segments between the slashes, empty ones included.
RECURSIVE SplitPath(_, _)
SplitPath(s, seg) ==
    IF s = <<>> THEN <<seg>>
    ELSE IF Head(s) = "/" THEN <<seg>> \o SplitPath(Tail(s), <<>>)
    ELSE SplitPath(Tail(s), Append(seg, Head(s)))

\* PurePosixPath: two leading slashes are kept, three or more are one.
PathAnchor(s) ==
    LET n == LeadingSlashes(s)
    IN  IF n = 0 THEN <<>> ELSE IF n = 2 THEN <<"/", "/">> ELSE <<"/">>

\* PurePosixPath: empty and "." segments are dropped, ".." segments are kept.
PathParts(s) == SelectSeq(SplitPath(s, <<>>), LAMBDA seg : seg # <<>> /\ seg # <<".">>)

RECURSIVE JoinParts(_)
JoinParts(parts) ==
    IF parts = <<>> THEN <<>>
    ELSE IF Len(parts) = 1 THEN Head(parts)
    ELSE Head(parts) \o <<"/">> \o JoinParts(Tail(parts))

\* Path(s).as_posix()
as_posix(s) ==
    IF PathAnchor(s) = <<>> /\ PathParts(s) = <<>> THEN <<".">>
    ELSE PathAnchor(s) \o JoinParts(PathParts(s))

\* Path.resolve() on the parts of an absolute path: ".." removes the part
\* before it and is dropped at the root.
RECURSIVE ResolveParts(_, _)
ResolveParts(parts, done) ==
    IF parts = <<>> THEN done
    ELSE IF Head(parts) = DotDot
         THEN ResolveParts(Tail(parts),
                           IF done = <<>> THEN <<>> ELSE SubSeq(done, 1, Len(done) - 1))
         ELSE ResolveParts(Tail(parts), Append(done, Head(parts)))

\* RPATH as a join that keeps the resource root in front of an absolute path.
RPATH_RootAlwaysPrefixed(p) ==
    <<"/">> \o JoinParts(ResolveParts(RESOURCE_ROOT \o PathParts(p), <<>>))

\* RPATH(*Path(p).parts).as_posix(): an absolute p replaces the resource
\* root, a relative one is joined to it; the result is resolved.
RPATH(p) ==
    LET joined == IF PathAnchor(p) # <<>> THEN PathParts(p)
                  ELSE RESOURCE_ROOT \o PathParts(p)
    IN  <<"/">> \o JoinParts(ResolveParts(joined, <<>>))

RECURSIVE StripLeadingParents(_)
StripLeadingParents(s) ==
    IF StartsWith(s, <<".", ".", "/">>)
    THEN StripLeadingParents(SubSeq(s, 4, Len(s)))
    ELSE s

absify(rel) ==
    LET rel_path == StripLeadingParents(as_posix(rel))
        no_dot == IF StartsWith(rel_path, <<".", "/">>)
                  THEN SubSeq(rel_path, 3, Len(rel_path))
                  ELSE rel_path
    IN  RPATH(no_dot)

\* The argument matches [^\}]*/?modules/[^\}]* : it holds "modules/".
PointsIntoModules(arg) ==
    \E i \in 1..(Len(arg) - 1) : arg[i] = "modules" /\ arg[i + 1] = "/"

\* The two re.sub calls on one item: \input{arg} without options, and
\* \includegraphics with or without [opts]; only the argument is replaced.
RewriteItem(item) ==
    IF item.kind = "ref" /\ PointsIntoModules(item.arg)
       /\ (item.cmd = "includegraphics" \/ (item.cmd = "input" /\ item.opts = NoOpts))
    THEN [item EXCEPT !.arg = absify(item.arg)]
    ELSE item

\* The whole call: a document that cannot be read raises inside the try
\* block and is left as it is.
rewrite_module_inputs_to_absolute(doc, readable) ==
    IF readable THEN [i \in 1..Len(doc) |-> RewriteItem(doc[i])] ELSE doc

(***************************************************************************)
(* compile_latex (app.py 275-300) with try_latexmk (204-219),              *)
(* compile_with_pdflatex (221-233) and clean_latex_junk (184-196).         *)
(*                                                                         *)
(* The files beside the staged document are named by their extension.  A   *)
(* run of latexmk or pdflatex leaves its log and auxiliary files, and the  *)
(* PDF when it exits with 0.                                               *)
(***************************************************************************)
JunkExts == {".aux", ".out", ".toc", ".fls", ".fdb_latexmk", ".synctex.gz"}

\* log_path = os.path.join(tex_dir, base_name + ".log")
LogPath(tex) == [dir |-> tex.dir, file |-> <<tex.base, ".log">>]

\* clean_latex_junk with keep_log ignored: the log is always removed.
clean_latex_junk_AlwaysRemovesLog(files, keep_log, failed) ==
    files \ ((JunkExts \cup {".log"}) \ failed)

\* clean_latex_junk: the files left when the removals in "failed" raise
\* (os.remove raises for a file that is locked or write-protected).
clean_latex_junk(files, keep_log, failed) ==
    LET exts == IF keep_log THEN JunkExts ELSE JunkExts \cup {".log"}
    IN  files \ (exts \ failed)

\* The extensions clean_latex_junk tries to remove.
CleanTargets(files, keep_log) ==
    files \cap (IF keep_log THEN JunkExts ELSE JunkExts \cup {".log"})

\* rc = proc.returncode, with a failed pass never forgotten.
NextRc_StickyFailure(rc, returncode) == IF rc # 0 THEN rc ELSE returncode

\* rc = proc.returncode (app.py 232)
NextRc(rc, returncode) == returncode

\* "except Exception" catching only the RuntimeError raised at line 289.
CatchesException_OnlyRuntimeError(exc) == exc = "pdflatex failed"

\* except Exception as e (app.py 296): every exception of the try block.
CatchesException(exc) == TRUE

\* compile_latex running pdflatex whatever try_latexmk returned.
AfterLatexmk_AlwaysFallback(outcome) == "pdflatex"

\* "ok = try_latexmk(...); if not ok: rc = compile_with_pdflatex(...)"
AfterLatexmk(outcome) == IF outcome = "ok" THEN "success" ELSE "pdflatex"

\* try_latexmk: which("latexmk") fails, or subprocess.run(check=True) raises
\* (spawn error, nonzero exit), or it returns.
TryLatexmk ==
    /\ c_pc = "start"
    /\ \E outcome \in IF "latexmk" \in c_tools
                      THEN {"spawn_error", "failed", "ok"} ELSE {"missing"} :
          /\ c_latexmk' = outcome
          /\ c_files' = c_files
                \cup (IF outcome \in {"failed", "ok"}
                      THEN {".aux", ".log", ".fls", ".fdb_latexmk"} ELSE {})
                \cup (IF outcome = "ok" THEN {".pdf"} ELSE {})
          /\ c_pc' = AfterLatexmk(outcome)
    /\ UNCHANGED <<c_args, c_tools, c_locked, c_passes, c_rc, c_exc, c_cleanup, c_result, notCompile>>

\* One iteration of the loop of compile_with_pdflatex; after the second,
\* compile_latex raises RuntimeError when rc # 0.
PdflatexPass ==
    /\ c_pc = "pdflatex"
    /\ IF "pdflatex" \notin c_tools
       THEN /\ c_exc' = "FileNotFoundError"
            /\ c_pc' = "except"
            /\ UNCHANGED <<c_passes, c_rc, c_files>>
       ELSE \E returncode \in {0, 1} :
            /\ c_passes' = Append(c_passes, returncode)
            /\ c_rc' = NextRc(c_rc, returncode)
            /\ c_files' = c_files \cup {".aux", ".log"}
                  \cup (IF returncode = 0 THEN {".pdf"} ELSE {})
            /\ IF Len(c_passes') < 2
               THEN c_pc' = "pdflatex" /\ c_exc' = c_exc
               ELSE IF c_rc' # 0
                    THEN c_pc' = "except" /\ c_exc' = "pdflatex failed"
                    ELSE c_pc' = "success" /\ c_exc' = c_exc
    /\ UNCHANGED <<c_args, c_tools, c_locked, c_latexmk, c_cleanup, c_result, notCompile>>

\* Lines 291-295: cleanup without the log, the viewer, the success result.
ReturnSuccess ==
    /\ c_pc = "success"
    /\ LET failed == CleanTargets(c_files, FALSE) \cap c_locked
       IN  /\ c_cleanup' = [before |-> c_files,
                            failed |-> IF c_args.clean_files THEN failed ELSE {}]
           /\ c_files' = IF c_args.clean_files
                         THEN clean_latex_junk(c_files, FALSE, failed)
                         ELSE c_files
    /\ c_result' = [kind |-> "returned", ok |-> TRUE, hint |-> NoHint,
                    log_path |-> LogPath(c_args.tex),
                    viewer |-> c_args.open_pdf]
    /\ c_pc' = "done"
    /\ UNCHANGED <<c_args, c_tools, c_locked, c_latexmk, c_passes, c_rc, c_exc, notCompile>>

\* Lines 296-300: cleanup keeping the log, the failure result with its hint.
ReturnFailure ==
    /\ c_pc = "except"
    /\ IF CatchesException(c_exc)
       THEN /\ LET failed == CleanTargets(c_files, TRUE) \cap c_locked
               IN  /\ c_cleanup' = [before |-> c_files,
                                    failed |-> IF c_args.clean_files THEN failed ELSE {}]
                   /\ c_files' = IF c_args.clean_files
                                 THEN clean_latex_junk(c_files, TRUE, failed)
                                 ELSE c_files
            /\ c_result' = [kind |-> "returned", ok |-> FALSE,
                            hint |-> <<c_exc, LogPath(c_args.tex)>>,
                            log_path |-> LogPath(c_args.tex),
                            viewer |-> FALSE]
       ELSE /\ c_result' = [kind |-> "raised", exc |-> c_exc]
            /\ UNCHANGED <<c_cleanup, c_files>>
    /\ c_pc' = "done"
    /\ UNCHANGED <<c_args, c_tools, c_locked, c_latexmk, c_passes, c_rc, c_exc, notCompile>>

(***************************************************************************)
(* customise_cv_content (app.py 383-432) and                               *)
(* customise_cover_letter_content (453-485).                               *)
(*                                                                         *)
(* A staged document is the list of its lines as readlines() returns them; *)
(* a line is a sequence of pieces: characters, and a marker or a module    *)
(* path as one piece.                                                      *)
(***************************************************************************)
SUMMARY_MARKER == "% PASTE SUMMARY HERE"
PROJECTS_MARKER == "% PROJECT PATHS HERE"
BODY_MARKER == "% PASTE HERE"

\* marker in line
HasMarker(marker, line) == marker \in Range(line)

\* path = id_to_path.get(pid); not path or not os.path.exists(path)
IsMissing(pid, map, disk) ==
    LET path == IF pid \in DOMAIN map THEN map[pid] ELSE <<>> IN
    path = <<>> \/ path \notin disk

\* The list "missing" stopping at the first id that does not resolve.
MissingIds_FirstOnly(selected_ids, map, disk) ==
    LET all == SelectSeq(selected_ids, LAMBDA pid : IsMissing(pid, map, disk))
    IN  IF all = <<>> THEN <<>> ELSE <<Head(all)>>

\* The list "missing" after the loop over selected_ids (app.py 398-405).
MissingIds(selected_ids, map, disk) ==
    SelectSeq(selected_ids, LAMBDA pid : IsMissing(pid, map, disk))

\* f"\\input{{{Path(path).as_posix()}}}\n"
InputDirective(path) == <<"\\input{">> \o as_posix(path) \o <<"}", "\n">>

RECURSIVE WithoutRepeats(_)
WithoutRepeats(ids) ==
    IF ids = <<>> THEN <<>>
    ELSE <<Head(ids)>> \o WithoutRepeats(SelectSeq(Tail(ids), LAMBDA pid : pid # Head(ids)))

\* The list "project_inputs" with one line per distinct id.
ProjectInputs_OncePerId(selected_ids, map, disk) ==
    LET found == WithoutRepeats(SelectSeq(selected_ids,
                                          LAMBDA pid : ~IsMissing(pid, map, disk)))
    IN  [i \in 1..Len(found) |-> InputDirective(map[found[i]])]

\* The list "project_inputs" after the loop: one \input line per resolved id.
ProjectInputs(selected_ids, map, disk) ==
    LET found == SelectSeq(selected_ids, LAMBDA pid : ~IsMissing(pid, map, disk))
    IN  [i \in 1..Len(found) |-> InputDirective(map[found[i]])]

\* The summary escaped even when is_raw_summary is set.
EscapedSummary_AlwaysEscaped(summary, is_raw_summary) == latex_escape(Strip(summary))

\* raw = summary.strip(); raw if is_raw_summary else latex_escape(raw)
EscapedSummary(summary, is_raw_summary) ==
    IF is_raw_summary THEN Strip(summary) ELSE latex_escape(Strip(summary))

\* The loop building new_lines in customise_cv_content (app.py 413-420).
RECURSIVE InjectCV(_, _, _)
InjectCV(lines, escaped_summary, project_inputs) ==
    IF lines = <<>> THEN <<>>
    ELSE (IF HasMarker(SUMMARY_MARKER, Head(lines))
          THEN <<escaped_summary \o <<"\n">>>>
          ELSE IF HasMarker(PROJECTS_MARKER, Head(lines))
               THEN project_inputs
               ELSE <<Head(lines)>>)
         \o InjectCV(Tail(lines), escaped_summary, project_inputs)

\* The loop of customise_cover_letter_content (app.py 466-473).
RECURSIVE InjectCL(_, _, _)
InjectCL(lines, escaped_body, inserted) ==
    IF lines = <<>> THEN <<>>
    ELSE IF HasMarker(BODY_MARKER, Head(lines)) /\ ~inserted
         THEN <<escaped_body \o <<"\n">>>> \o InjectCL(Tail(lines), escaped_body, TRUE)
         ELSE <<Head(lines)>> \o InjectCL(Tail(lines), escaped_body, inserted)

\* compile_latex(path, open_pdf=False, clean_files=clean_opt) is entered.
EnterCompile(tex, clean_opt) ==
    /\ c_pc' = "start"
    /\ c_args' = [tex |-> tex, open_pdf |-> FALSE, clean_files |-> clean_opt]
    /\ UNCHANGED <<c_tools, c_files, c_latexmk, c_passes, c_rc, c_exc, c_cleanup,
                   c_result, c_locked>>

CVPath == [dir |-> "job", base |-> "Name_CV"]
CLPath == [dir |-> "job", base |-> "Name_Cover_Letter"]

\* customise_cv_content up to its return or its call of compile_latex.
CustomiseCV ==
    /\ in_pc = "ready"
    /\ in_call.fn = "cv"
    /\ IF in_file = NoFile
       THEN /\ in_pc' = "done"
            /\ in_ret' = "False"
            /\ UNCHANGED <<in_file, in_ui, in_writes, cVars>>
       ELSE LET missing == MissingIds(in_call.selected_ids, id_to_path, in_disk)
                project_inputs == ProjectInputs(in_call.selected_ids, id_to_path, in_disk)
                escaped_summary == EscapedSummary(in_call.text, in_call.is_raw)
                has_markers ==
                    /\ \E i \in 1..Len(in_file) : HasMarker(SUMMARY_MARKER, in_file[i])
                    /\ \E i \in 1..Len(in_file) : HasMarker(PROJECTS_MARKER, in_file[i])
            IN  /\ in_ui' = [missing |-> missing, warned |-> ~has_markers]
                /\ IF missing # <<>>
                   THEN /\ in_pc' = "done"
                        /\ in_ret' = "False"
                        /\ UNCHANGED <<in_file, in_writes, cVars>>
                   ELSE /\ in_file' = InjectCV(in_file, escaped_summary, project_inputs)
                        /\ in_writes' = in_writes + 1
                        /\ IF in_call.compile_opt
                           THEN /\ in_pc' = "compiling"
                                /\ in_ret' = in_ret
                                /\ EnterCompile(CVPath, in_call.clean_opt)
                           ELSE /\ in_pc' = "done"
                                /\ in_ret' = "True"
                                /\ UNCHANGED cVars
    /\ UNCHANGED <<id_to_path, in_call, in_orig, in_disk, notInject>>

\* customise_cover_letter_content up to its return or its call of compile_latex.
CustomiseCL ==
    /\ in_pc = "ready"
    /\ in_call.fn = "cl"
    /\ IF in_file = NoFile
       THEN /\ in_pc' = "done"
            /\ in_ret' = "False"
            /\ UNCHANGED <<in_file, in_ui, in_writes, cVars>>
       ELSE /\ in_ui' = [missing |-> <<>>,
                         warned |-> ~\E i \in 1..Len(in_file) :
                                        HasMarker(BODY_MARKER, in_file[i])]
            /\ in_file' = InjectCL(in_file, latex_escape(Strip(in_call.text)), FALSE)
            /\ in_writes' = in_writes + 1
            /\ IF in_call.compile_opt
               THEN /\ in_pc' = "compiling"
                    /\ in_ret' = in_ret
                    /\ EnterCompile(CLPath, in_call.clean_opt)
               ELSE /\ in_pc' = "done"
                    /\ in_ret' = "True"
                    /\ UNCHANGED cVars
    /\ UNCHANGED <<id_to_path, in_call, in_orig, in_disk, notInject>>

\* Lines 425-432 and 478-485: compile_latex has returned; a failure is
\* reported (with the offer to open the log) and makes the call return False.
ReturnAfterCompile ==
    /\ in_pc = "compiling"
    /\ c_pc = "done"
    /\ in_ret' = IF c_result.kind = "returned" /\ c_result.ok THEN "True" ELSE "False"
    /\ in_pc' = "done"
    /\ UNCHANGED <<id_to_path, in_call, in_orig, in_file, in_disk, in_ui, in_writes,
                   cVars, notInject>>

(***************************************************************************)
(* SpecEscape: latex_escape applied to every text over EscAlphabet.        *)
(***************************************************************************)
EscAlphabet == SpecialChars \cup {"a", " "}

InitEscape ==
    /\ esc_in \in SeqsUpTo(EscAlphabet, MaxTextLen)
    /\ esc_out = NotRun
    /\ SanitizeIdle
    /\ RewriteIdle
    /\ CompileIdle
    /\ InjectIdle
    /\ JobsIdle
    /\ RegistryIdle

LatexEscape ==
    /\ esc_out = NotRun
    /\ esc_out' = latex_escape(esc_in)
    /\ UNCHANGED <<esc_in, notEscape>>

NextEscape == LatexEscape

SpecEscape == InitEscape /\ [][NextEscape]_vars

(***************************************************************************)
(* SpecSanitize: sanitize_name applied to two names.                       *)
(***************************************************************************)
NameAlphabet == {"a", "B", " ", "!", "_", "-"}

InitSanitize ==
    /\ san_a \in SeqsUpTo(NameAlphabet, MaxNameLen)
    /\ san_b \in SeqsUpTo(NameAlphabet, MaxNameLen)
    /\ slug_a = NotRun
    /\ slug_b = NotRun
    /\ EscapeIdle
    /\ RewriteIdle
    /\ CompileIdle
    /\ InjectIdle
    /\ JobsIdle
    /\ RegistryIdle

SanitizeA ==
    /\ slug_a = NotRun
    /\ slug_a' = sanitize_name(san_a)
    /\ UNCHANGED <<san_a, san_b, slug_b, notSanitize>>

SanitizeB ==
    /\ slug_b = NotRun
    /\ slug_b' = sanitize_name(san_b)
    /\ UNCHANGED <<san_a, san_b, slug_a, notSanitize>>

NextSanitize == SanitizeA \/ SanitizeB

SpecSanitize == InitSanitize /\ [][NextSanitize]_vars

(***************************************************************************)
(* SpecRewrite: a staged document with one reference is rewritten twice.   *)
(***************************************************************************)
PathPieces == {"/", ".", "modules", "r"}

PlainText == [kind |-> "text"]

References ==
    [kind : {"ref"}, cmd : {"input", "includegraphics"},
     opts : {NoOpts, <<"w">>}, arg : SeqsUpTo(PathPieces, MaxPathLen)]

InitRewrite ==
    /\ \E ref \in References : rw_orig = <<PlainText, ref>>
    /\ rw_doc = rw_orig
    /\ rw_once = NotRun
    /\ rw_utf8 \in BOOLEAN
    /\ rw_calls = 0
    /\ EscapeIdle
    /\ SanitizeIdle
    /\ CompileIdle
    /\ InjectIdle
    /\ JobsIdle
    /\ RegistryIdle

Rewrite ==
    /\ rw_calls < 2
    /\ rw_doc' = rewrite_module_inputs_to_absolute(rw_doc, rw_utf8)
    /\ rw_once' = IF rw_calls = 0 THEN rw_doc' ELSE rw_once
    /\ rw_calls' = rw_calls + 1
    /\ UNCHANGED <<rw_orig, rw_utf8, notRewrite>>

NextRewrite == Rewrite

SpecRewrite == InitRewrite /\ [][NextRewrite]_vars

(***************************************************************************)
(* SpecCompile: one call of compile_latex on a staged document.            *)
(***************************************************************************)
StagedDocuments == {[dir |-> "job", base |-> "Name_CV"],
                    [dir |-> "job", base |-> "Name_Cover_Letter"]}

CompileStart(tex, open_pdf, clean_files) ==
    /\ c_pc = "start"
    /\ c_args = [tex |-> tex, open_pdf |-> open_pdf, clean_files |-> clean_files]
    /\ c_latexmk = "not_tried" /\ c_passes = <<>> /\ c_rc = 0 /\ c_exc = NoException
    /\ c_cleanup = NoCleanup /\ c_result = NoResult

InitCompile ==
    /\ \E tex \in StagedDocuments, open_pdf \in BOOLEAN, clean_files \in BOOLEAN :
          CompileStart(tex, open_pdf, clean_files)
    /\ c_tools \in SUBSET {"latexmk", "pdflatex"}
    /\ c_files \in SUBSET {".log", ".out"}
    /\ c_locked \in SUBSET {".log", ".aux"}
    /\ EscapeIdle
    /\ SanitizeIdle
    /\ RewriteIdle
    /\ InjectIdle
    /\ JobsIdle
    /\ RegistryIdle

NextCompile == TryLatexmk \/ PdflatexPass \/ ReturnSuccess \/ ReturnFailure

SpecCompile == InitCompile /\ [][NextCompile]_vars

(***************************************************************************)
(* SpecInject: one call of customise_cv_content or of                      *)
(* customise_cover_letter_content on a staged document, through the        *)
(* compilation it starts.                                                  *)
(***************************************************************************)
OtherLine == <<"x", "\n">>
CVLines == {OtherLine, <<" ", SUMMARY_MARKER, "\n">>, <<PROJECTS_MARKER, "\n">>}
CLLines == {OtherLine, <<BODY_MARKER, "\n">>}

\* Summaries and bodies as the caller may pass them.
Texts == {<<"a">>, <<" ", "#", "a", " ", "\n">>, <<"~", "_">>}

\* Ids "1" and "2" are registered, "99" is not.
RegisteredPaths == [id \in {"1", "2"} |->
                       <<"/", "r", "/", "modules", "/", "projects", "/",
                         IF id = "1" THEN "one.tex" ELSE "two.tex">>]

InitInject ==
    /\ in_pc = "ready"
    /\ \E fn \in {"cv", "cl"} :
          /\ in_orig \in SeqsUpTo(IF fn = "cv" THEN CVLines ELSE CLLines, MaxLines)
                            \cup {NoFile}
          /\ \E text \in Texts, compile_opt \in BOOLEAN, clean_opt \in BOOLEAN :
                in_call \in [fn : {fn}, text : {text},
                             selected_ids : IF fn = "cv"
                                            THEN SeqsUpTo({"1", "2", "99"}, MaxIds) \ {<<>>}
                                            ELSE {<<>>},
                             compile_opt : {compile_opt},
                             clean_opt : {compile_opt /\ clean_opt},
                             is_raw : IF fn = "cv" THEN BOOLEAN ELSE {FALSE}]
    /\ in_file = in_orig
    /\ id_to_path = RegisteredPaths
    /\ in_disk \in {{RegisteredPaths["1"], RegisteredPaths["2"]}, {RegisteredPaths["1"]}}
    /\ in_ui = NoUi /\ in_writes = 0 /\ in_ret = "none"
    /\ c_pc = "idle" /\ c_args = NoArgs
    /\ c_tools \in {{"latexmk"}, {"pdflatex"}}
    /\ c_files = {} /\ c_locked = {}
    /\ c_latexmk = "not_tried" /\ c_passes = <<>> /\ c_rc = 0 /\ c_exc = NoException
    /\ c_cleanup = NoCleanup /\ c_result = NoResult
    /\ EscapeIdle
    /\ SanitizeIdle
    /\ RewriteIdle
    /\ JobsIdle
    /\ RegistryIdle

NextInject ==
    \/ CustomiseCV
    \/ CustomiseCL
    \/ TryLatexmk
    \/ PdflatexPass
    \/ ReturnSuccess
    \/ ReturnFailure
    \/ ReturnAfterCompile

SpecInject == InitInject /\ [][NextInject]_vars

(***************************************************************************)
(* The module registry (app.py 307-331 and 822-846): load_projects builds  *)
(* the project list and id_to_path at start-up; add_project_paths copies   *)
(* dropped .tex files into modules/projects and appends them at run time.  *)
(* A project is [id, path]; its display name plays no part in a lookup.    *)
(***************************************************************************)
TexSuffix == ".tex"

\* RPATH('modules', 'projects')
ProjectsDir == RPATH(<<"modules", "/", "projects">>)

\* dest_dir / name, already resolved
FilePath(name) == ProjectsDir \o <<"/">> \o name

\* Code points of the characters that occur in file names.
CharRank(ch) ==
    CASE ch = ".tex" -> 46 [] ch = "1" -> 49 [] ch = "2" -> 50 [] ch = "_" -> 95
      [] ch = "a" -> 97 [] ch = "b" -> 98 [] OTHER -> 120

\* String comparison of two file names.
RECURSIVE NameLess(_, _)
NameLess(a, b) ==
    IF a = <<>> THEN b # <<>>
    ELSE IF b = <<>> THEN FALSE
    ELSE IF Head(a) = Head(b) THEN NameLess(Tail(a), Tail(b))
    ELSE CharRank(Head(a)) < CharRank(Head(b))

\* sorted(proj_dir.glob('*.tex')) as a sequence of file names.
RECURSIVE SortedNames(_)
SortedNames(names) ==
    IF names = {} THEN <<>>
    ELSE LET least == CHOOSE n \in names : \A m \in names \ {n} : NameLess(n, m)
         IN  <<least>> \o SortedNames(names \ {least})

\* The *.tex files directly in modules/projects.
GlobTex(disk) ==
    {SubSeq(p, Len(ProjectsDir) + 2, Len(p)) :
        p \in {q \in disk : /\ Len(q) > Len(ProjectsDir) + 1
                            /\ SubSeq(q, 1, Len(ProjectsDir) + 1) = ProjectsDir \o <<"/">>
                            /\ q[Len(q)] = TexSuffix
                            /\ \A i \in (Len(ProjectsDir) + 2)..Len(q) : q[i] # "/"}}

\* The manifest pass of load_projects: every item is appended, under its own
\* id when it has one and under str(len(projects) + 1) otherwise.
RECURSIVE LoadManifest(_, _)
LoadManifest(items, projs) ==
    IF items = <<>> THEN projs
    ELSE LET item == Head(items)
             abs_path == RPATH(item.path)
             pid == IF item.id # <<>> THEN item.id ELSE Decimal(Len(projs) + 1)
         IN  LoadManifest(Tail(items), Append(projs, [id |-> pid, path |-> abs_path]))

\* The scan pass: a file is appended unless the manifest pass listed it.
RECURSIVE ScanProjects(_, _, _)
ScanProjects(names, listed, projs) ==
    IF names = <<>> THEN projs
    ELSE ScanProjects(Tail(names), listed,
                      IF FilePath(Head(names)) \notin listed
                      THEN Append(projs, [id |-> Decimal(Len(projs) + 1),
                                          path |-> FilePath(Head(names))])
                      ELSE projs)

\* {p['id']: p['path'] for p in projects}: a later project with the same id
\* replaces the earlier one.
IdToPath(projs) ==
    [pid \in {projs[i].id : i \in 1..Len(projs)} |->
        projs[CHOOSE i \in 1..Len(projs) :
                  /\ projs[i].id = pid
                  /\ \A j \in 1..Len(projs) : projs[j].id = pid => j <= i].path]

\* listed = {Path(p['path']).resolve() for p in projects}
ListedPaths(projs) == {projs[i].path : i \in 1..Len(projs)}

load_projects(items, disk) ==
    LET from_manifest == LoadManifest(items, <<>>)
    IN  ScanProjects(SortedNames(GlobTex(disk)), ListedPaths(from_manifest), from_manifest)

\* suffix.lower()
LowerSuffix(suffix) == IF suffix = ".TEX" THEN TexSuffix ELSE suffix

\* _copy_tex_into_projects: the first of base.tex, base_1.tex, ... that does
\* not exist.
RECURSIVE FreeDest(_, _, _)
FreeDest(base, n, disk) ==
    LET dest == FilePath(IF n = 0 THEN base \o <<TexSuffix>>
                         ELSE base \o <<"_">> \o Decimal(n) \o <<TexSuffix>>)
    IN  IF dest \in disk THEN FreeDest(base, n + 1, disk) ELSE dest

\* The path of a dropped file.
SourcePath(src) == <<"/", "h", "/">> \o src.stem \o <<src.suffix>>

\* The loop of add_project_paths over the dropped paths; st is
\* [projects, map, disk, listbox].
RECURSIVE AddLoop(_, _)
AddLoop(paths, st) ==
    IF paths = <<>> THEN st
    ELSE LET src == Head(paths).src
             copy_ok == Head(paths).copy_ok
             dest == FreeDest(sanitize_name(src.stem), 0, st.disk)
             pid == Decimal(Len(st.projects) + 1)
         IN  IF SourcePath(src) \notin st.disk \/ LowerSuffix(src.suffix) # TexSuffix
             THEN AddLoop(Tail(paths), st)
             ELSE IF ~copy_ok
             THEN AddLoop(Tail(paths), st)
             ELSE IF \E i \in 1..Len(st.projects) : st.projects[i].path = dest
             THEN AddLoop(Tail(paths), [st EXCEPT !.disk = @ \cup {dest}])
             ELSE AddLoop(Tail(paths),
                          [projects |-> Append(st.projects, [id |-> pid, path |-> dest]),
                           map |-> [k \in DOMAIN st.map \cup {pid} |->
                                       IF k = pid THEN dest ELSE st.map[k]],
                           disk |-> st.disk \cup {dest},
                           listbox |-> Append(st.listbox, pid)])

\* run_app: load_projects, then the list box is filled; with no project the
\* application shows an error and ends.
LoadProjects ==
    /\ reg_pc = "start"
    /\ projects' = load_projects(manifest, in_disk)
    /\ id_to_path' = IdToPath(projects')
    /\ IF projects' = <<>>
       THEN reg_pc' = "exit" /\ listbox' = <<>>
       ELSE /\ reg_pc' = "loaded"
            /\ listbox' = [i \in 1..Len(projects') |-> projects'[i].id]
    /\ UNCHANGED <<manifest, reg_adds, in_disk>>
    /\ UNCHANGED <<in_pc, in_call, in_orig, in_file, in_ui, in_writes, in_ret>>
    /\ UNCHANGED notRegistry

\* The files a user may drop: the first three exist, the last does not.
Sources ==
    {[stem |-> <<"A">>, suffix |-> TexSuffix], [stem |-> <<"a">>, suffix |-> ".TEX"],
     [stem |-> <<"n">>, suffix |-> ".md"], [stem |-> <<"x">>, suffix |-> TexSuffix]}

ExistingSources == {SourcePath(src) : src \in {s \in Sources : s.stem # <<"x">>}}

DroppedFiles == [src : Sources, copy_ok : BOOLEAN]

\* add_project_paths(paths), from a drop or from the file dialog.
AddProjectPaths ==
    /\ reg_pc = "loaded"
    /\ reg_adds < MaxAddCalls
    /\ \E writable \in BOOLEAN, paths \in SeqsUpTo(DroppedFiles, MaxDrop) :
          LET st == IF writable
                    THEN AddLoop(paths, [projects |-> projects, map |-> id_to_path,
                                         disk |-> in_disk, listbox |-> listbox])
                    ELSE [projects |-> projects, map |-> id_to_path,
                          disk |-> in_disk, listbox |-> listbox]
          IN  /\ projects' = st.projects
              /\ id_to_path' = st.map
              /\ in_disk' = st.disk
              /\ listbox' = st.listbox
    /\ reg_adds' = reg_adds + 1
    /\ UNCHANGED <<reg_pc, manifest>>
    /\ UNCHANGED <<in_pc, in_call, in_orig, in_file, in_ui, in_writes, in_ret>>
    /\ UNCHANGED notRegistry

(***************************************************************************)
(* SpecRegistry: start-up with every manifest of up to MaxManifest items   *)
(* and every content of modules/projects, then drops of files.             *)
(***************************************************************************)
ManifestPaths ==
    {<<"modules", "/", "projects", "/", "a", TexSuffix>>,
     <<"modules", "/", ".", "/", "projects", "/", "a", TexSuffix>>,
     <<"modules", "/", "projects", "/", "b", TexSuffix>>}

ManifestItems == [id : {<<>>, <<"1">>, <<"2">>}, path : ManifestPaths]

ModuleFiles == {FilePath(<<"a", TexSuffix>>), FilePath(<<"b", TexSuffix>>)}

InitRegistry ==
    /\ reg_pc = "start"
    /\ manifest \in SeqsUpTo(ManifestItems, MaxManifest)
    /\ \E present \in SUBSET ModuleFiles : in_disk = present \cup ExistingSources
    /\ projects = <<>> /\ listbox = <<>> /\ reg_adds = 0
    /\ id_to_path = <<>>
    /\ in_pc = "idle" /\ in_call = NoCall /\ in_orig = NoFile /\ in_file = NoFile
    /\ in_ui = NoUi /\ in_writes = 0 /\ in_ret = "none"
    /\ EscapeIdle
    /\ SanitizeIdle
    /\ RewriteIdle
    /\ CompileIdle
    /\ JobsIdle

NextRegistry == LoadProjects \/ AddProjectPaths

SpecRegistry == InitRegistry /\ [][NextRegistry]_vars

(***************************************************************************)
(* The generation pipeline (app.py 952-1032, 335-379 and 436-451): every   *)
(* accepted press of Generate starts a worker thread that runs work().     *)
(* The threads share the jobs/ directory tree; each step of create_cv_for  *)
(* below is one access to it, so the steps of different threads            *)
(* interleave.  Each job keeps in "steps" the steps it has finished, with  *)
(* their outcome.                                                          *)
(***************************************************************************)
\* Path.exists() on a folder below jobs/.
Exists_Never(path, dirs) == FALSE
Exists(path, dirs) == path \in dirs

\* base.parent / f"{base.name}_{n}"
Candidate(base, n) == <<base[1], base[2] \o <<"_">> \o Decimal(n)>>

General == <<"g", "e", "n", "e", "r", "a", "l">>

NoFolder == <<>>

\* What the form holds when Generate is pressed, after .strip().
RoleInputs == {<<>>, <<"B">>, <<"b", "_", "1">>}
CompanyInputs == {<<"A">>}
LinkInputs == {<<>>, <<"u">>}
SummaryInputs == {<<>>, <<"a">>}
BodyInputs == {<<>>, <<"a">>}

\* The ids of the selected rows, in the order of the rows
\* (row.split(' - ', 1)[0].strip() for each index of curselection()).
RECURSIVE SelectedIds(_, _)
SelectedIds(rows, indices) ==
    IF indices = {} THEN <<>>
    ELSE LET first == CHOOSE i \in indices : \A k \in indices : i <= k
         IN  <<Strip(rows[first])>> \o SelectedIds(rows, indices \ {first})

\* The two checks of on_generate (app.py 967-973).
FormComplete(role_title, company, job_link, summary, selected_ids, want_cl, cl_body) ==
    /\ role_title # <<>> /\ company # <<>> /\ job_link # <<>> /\ summary # <<>>
    /\ selected_ids # <<>>
    /\ ~(want_cl /\ cl_body = <<>>)

\* on_generate: validation, then the worker thread is started; limit is the
\* number of requests followed.
OnGenerateUpTo(limit) ==
    /\ reg_pc = "loaded"
    /\ Len(jobs) < limit
    /\ \E role_title \in RoleInputs, company \in CompanyInputs, job_link \in LinkInputs,
          summary \in SummaryInputs, indices \in SUBSET (1..Len(listbox)),
          want_cl \in BOOLEAN, cl_body \in BodyInputs :
          LET selected_ids == SelectedIds(listbox, indices)
          IN  /\ FormComplete(role_title, company, job_link, summary, selected_ids,
                              want_cl, cl_body)
              /\ jobs' = Append(jobs, [pc |-> "create_cv_for", role_title |-> role_title,
                                       company |-> company, job_link |-> job_link,
                                       summary |-> summary, selected_ids |-> selected_ids,
                                       want_cl |-> want_cl,
                                       cl_body |-> IF want_cl THEN cl_body ELSE <<>>,
                                       base_folder |-> NoFolder,
                                       n |-> 0, job_folder |-> NoFolder,
                                       dirs_call |-> {}, dirs_ret |-> {},
                                       cv_path |-> NoFolder, cl_path |-> NoFolder,
                                       steps |-> <<>>])
    /\ UNCHANGED <<fs_dirs, tpl_cv, tpl_cl, notJobs>>

OnGenerate == OnGenerateUpTo(MaxJobs)

\* on_generate with an incomplete form: a warning and nothing else.
OnGenerateRejected ==
    /\ reg_pc = "loaded"
    /\ ~\A role_title \in RoleInputs, company \in CompanyInputs, job_link \in LinkInputs,
          summary \in SummaryInputs, indices \in SUBSET (1..Len(listbox)),
          want_cl \in BOOLEAN, cl_body \in BodyInputs :
          FormComplete(role_title, company, job_link, summary,
                       SelectedIds(listbox, indices), want_cl, cl_body)
    /\ UNCHANGED vars

\* create_cv_for up to the call of ensure_unique_folder.
CreateCvFor(j) ==
    /\ jobs[j].pc = "create_cv_for"
    /\ IF ~tpl_cv
       THEN /\ jobs' = [jobs EXCEPT ![j].pc = "failed",
                                    ![j].steps = Append(@, <<"template_cv", FALSE>>)]
            /\ UNCHANGED fs_dirs
       ELSE LET company_slug == sanitize_name(jobs[j].company)
                role == IF jobs[j].role_title = <<>> THEN General
                        ELSE jobs[j].role_title
                role_slug == sanitize_name(role)
            IN  /\ fs_dirs' = fs_dirs \cup {<<company_slug>>}
                /\ jobs' = [jobs EXCEPT ![j].pc = "unique_base",
                                        ![j].base_folder = <<company_slug, role_slug>>,
                                        ![j].dirs_call = fs_dirs']
    /\ UNCHANGED <<tpl_cv, tpl_cl, notJobs>>

\* ensure_unique_folder: "if not base.exists(): return base", else n = 1.
EnsureUniqueBase(j) ==
    /\ jobs[j].pc = "unique_base"
    /\ IF ~Exists(jobs[j].base_folder, fs_dirs)
       THEN jobs' = [jobs EXCEPT ![j].pc = "mkdir", ![j].dirs_ret = fs_dirs,
                                 ![j].job_folder = jobs[j].base_folder]
       ELSE jobs' = [jobs EXCEPT ![j].pc = "unique_cand", ![j].n = 1]
    /\ UNCHANGED <<fs_dirs, tpl_cv, tpl_cl, notJobs>>

\* ensure_unique_folder: one turn of the while loop.
EnsureUniqueCand(j) ==
    /\ jobs[j].pc = "unique_cand"
    /\ LET cand == Candidate(jobs[j].base_folder, jobs[j].n)
       IN  IF ~Exists(cand, fs_dirs)
           THEN jobs' = [jobs EXCEPT ![j].pc = "mkdir", ![j].dirs_ret = fs_dirs,
                                     ![j].job_folder = cand]
           ELSE jobs' = [jobs EXCEPT ![j].n = jobs[j].n + 1]
    /\ UNCHANGED <<fs_dirs, tpl_cv, tpl_cl, notJobs>>

\* job_folder.mkdir(parents=True, exist_ok=True)
MkdirJobFolder(j) ==
    /\ jobs[j].pc = "mkdir"
    /\ fs_dirs' = fs_dirs \cup {jobs[j].job_folder}
    /\ jobs' = [jobs EXCEPT ![j].pc = "stage",
                            ![j].steps = Append(@, <<"folder", TRUE>>)]
    /\ UNCHANGED <<tpl_cv, tpl_cl, notJobs>>

\* The copy, rewrite and patch of the template: done, or an exception and
\* (None, None).
StageCV(j) ==
    /\ jobs[j].pc = "stage"
    /\ \E ok \in BOOLEAN :
          jobs' = [jobs EXCEPT ![j].pc = IF ok THEN "created" ELSE "failed",
                               ![j].cv_path = IF ok THEN jobs[j].job_folder \o <<"CV.tex">>
                                              ELSE NoFolder,
                               ![j].steps = Append(@, <<"stage_cv", ok>>)]
    /\ UNCHANGED <<fs_dirs, tpl_cv, tpl_cl, notJobs>>

\* work() after a document was filled and, if asked for, compiled: "if not
\* ok: return" ends the worker.
AfterDocument_IgnoresFailure(ok, next_pc) == next_pc
AfterDocument(ok, next_pc) == IF ok THEN next_pc ELSE "ended"

\* work() after the CV: the cover letter if it is wanted, else the end.
AfterCV(want_cl) == IF want_cl THEN "create_cl" ELSE "finish"

\* customise_cv_content up to its return or its call of compile_latex: the
\* lookup of every selected id, then the write of the filled CV.
CustomiseCvContent(j) ==
    /\ jobs[j].pc = "created"
    /\ LET missing == MissingIds(jobs[j].selected_ids, id_to_path, in_disk)
       IN  IF missing # <<>>
           THEN jobs' = [jobs EXCEPT ![j].pc = AfterDocument(FALSE, "compile_cv"),
                                     ![j].steps = Append(@, <<"inject_cv", FALSE>>)]
           ELSE \E compile_opt \in BOOLEAN :
                   jobs' = [jobs EXCEPT ![j].pc = IF compile_opt THEN "compile_cv"
                                                  ELSE AfterCV(jobs[j].want_cl),
                                        ![j].steps = Append(@, <<"inject_cv", TRUE>>)]
    /\ UNCHANGED <<fs_dirs, tpl_cv, tpl_cl, notJobs>>

\* compile_latex on the CV and the return of customise_cv_content.
CompileCv(j) ==
    /\ jobs[j].pc = "compile_cv"
    /\ \E ok \in BOOLEAN :
          jobs' = [jobs EXCEPT ![j].pc = AfterDocument(ok, AfterCV(jobs[j].want_cl)),
                               ![j].steps = Append(@, <<"compile_cv", ok>>)]
    /\ UNCHANGED <<fs_dirs, tpl_cv, tpl_cl, notJobs>>

\* create_cover_letter_for: no template, or the copy, rewrite and patch,
\* which may raise.
CreateCoverLetterFor(j) ==
    /\ jobs[j].pc = "create_cl"
    /\ IF ~tpl_cl
       THEN jobs' = [jobs EXCEPT ![j].pc = "ended",
                                 ![j].steps = Append(@, <<"template_cl", FALSE>>)]
       ELSE \E ok \in BOOLEAN :
               jobs' = [jobs EXCEPT ![j].pc = AfterDocument(ok, "customise_cl"),
                                    ![j].cl_path = IF ok
                                                   THEN jobs[j].job_folder \o <<"Cover_Letter.tex">>
                                                   ELSE NoFolder,
                                    ![j].steps = Append(@, <<"stage_cl", ok>>)]
    /\ UNCHANGED <<fs_dirs, tpl_cv, tpl_cl, notJobs>>

\* customise_cover_letter_content up to its return or its call of
\* compile_latex.
CustomiseCoverLetterContent(j) ==
    /\ jobs[j].pc = "customise_cl"
    /\ \E compile_opt \in BOOLEAN :
          jobs' = [jobs EXCEPT ![j].pc = IF compile_opt THEN "compile_cl" ELSE "finish",
                               ![j].steps = Append(@, <<"inject_cl", TRUE>>)]
    /\ UNCHANGED <<fs_dirs, tpl_cv, tpl_cl, notJobs>>

\* compile_latex on the cover letter and the return of
\* customise_cover_letter_content.
CompileCl(j) ==
    /\ jobs[j].pc = "compile_cl"
    /\ \E ok \in BOOLEAN :
          jobs' = [jobs EXCEPT ![j].pc = AfterDocument(ok, "finish"),
                               ![j].steps = Append(@, <<"compile_cl", ok>>)]
    /\ UNCHANGED <<fs_dirs, tpl_cv, tpl_cl, notJobs>>

\* The end of work(): "Done.", the preview and clear_form().
Finish(j) ==
    /\ jobs[j].pc = "finish"
    /\ jobs' = [jobs EXCEPT ![j].pc = "ended",
                            ![j].steps = Append(@, <<"done", TRUE>>)]
    /\ UNCHANGED <<fs_dirs, tpl_cv, tpl_cl, notJobs>>

\* What earlier runs of the program left under jobs/: folders are created
\* by MkdirJobFolder and never removed by the program.
ExistingTrees ==
    {{},
     {<<<<"a">>>>, <<<<"a">>, <<"b">>>>},
     {<<<<"a">>>>, <<<<"a">>, <<"b">>>>, <<<<"a">>, <<"b", "_", "2">>>>}}

\* The registry after load_projects found the one module a.tex.
OneModule == {FilePath(<<"a", TexSuffix>>)}

Init ==
    /\ fs_dirs \in ExistingTrees
    /\ tpl_cv \in BOOLEAN
    /\ tpl_cl = TRUE
    /\ jobs = <<>>
    /\ reg_pc = "loaded" /\ manifest = <<>> /\ reg_adds = 0
    /\ in_disk = OneModule
    /\ projects = load_projects(manifest, in_disk)
    /\ id_to_path = IdToPath(projects)
    /\ listbox = [i \in 1..Len(projects) |-> projects[i].id]
    /\ in_pc = "idle" /\ in_call = NoCall /\ in_orig = NoFile /\ in_file = NoFile
    /\ in_ui = NoUi /\ in_writes = 0 /\ in_ret = "none"
    /\ EscapeIdle
    /\ SanitizeIdle
    /\ RewriteIdle
    /\ CompileIdle

\* The workers up to the return of create_cv_for, where they share jobs/.
Next ==
    \/ OnGenerate
    \/ OnGenerateRejected
    \/ \E j \in 1..Len(jobs) : CreateCvFor(j)
    \/ \E j \in 1..Len(jobs) : EnsureUniqueBase(j)
    \/ \E j \in 1..Len(jobs) : EnsureUniqueCand(j)
    \/ \E j \in 1..Len(jobs) : MkdirJobFolder(j)
    \/ \E j \in 1..Len(jobs) : StageCV(j)

Spec == Init /\ [][Next]_vars

(***************************************************************************)
(* SpecRequest: one request, from the press of Generate to the end of its  *)
(* worker, for every form content, with a registry whose second module may *)
(* have lost its file and with either template present or absent.          *)
(***************************************************************************)
TwoModules == <<[id |-> <<>>, path |-> <<"modules", "/", "projects", "/", "a", TexSuffix>>],
                [id |-> <<>>, path |-> <<"modules", "/", "projects", "/", "b", TexSuffix>>]>>

GenerateOnce == OnGenerateUpTo(1)

InitRequest ==
    /\ fs_dirs \in {{}, {<<<<"a">>>>, <<<<"a">>, <<"b">>>>}}
    /\ tpl_cv \in BOOLEAN
    /\ tpl_cl \in BOOLEAN
    /\ jobs = <<>>
    /\ reg_pc = "loaded" /\ manifest = TwoModules /\ reg_adds = 0
    /\ in_disk \in {ModuleFiles \cup ExistingSources, OneModule \cup ExistingSources}
    /\ projects = load_projects(manifest, in_disk)
    /\ id_to_path = IdToPath(projects)
    /\ listbox = [i \in 1..Len(projects) |-> projects[i].id]
    /\ in_pc = "idle" /\ in_call = NoCall /\ in_orig = NoFile /\ in_file = NoFile
    /\ in_ui = NoUi /\ in_writes = 0 /\ in_ret = "none"
    /\ EscapeIdle
    /\ SanitizeIdle
    /\ RewriteIdle
    /\ CompileIdle

NextRequest ==
    \/ GenerateOnce
    \/ OnGenerateRejected
    \/ \E j \in 1..Len(jobs) : CreateCvFor(j)
    \/ \E j \in 1..Len(jobs) : EnsureUniqueBase(j)
    \/ \E j \in 1..Len(jobs) : EnsureUniqueCand(j)
    \/ \E j \in 1..Len(jobs) : MkdirJobFolder(j)
    \/ \E j \in 1..Len(jobs) : StageCV(j)
    \/ \E j \in 1..Len(jobs) : CustomiseCvContent(j)
    \/ \E j \in 1..Len(jobs) : CompileCv(j)
    \/ \E j \in 1..Len(jobs) : CreateCoverLetterFor(j)
    \/ \E j \in 1..Len(jobs) : CustomiseCoverLetterContent(j)
    \/ \E j \in 1..Len(jobs) : CompileCl(j)
    \/ \E j \in 1..Len(jobs) : Finish(j)

SpecRequest == InitRequest /\ [][NextRequest]_vars

(***************************************************************************)
(* SpecApp: the same request while the user also drops files on the        *)
(* project list, which runs add_project_paths on the GUI thread.           *)
(***************************************************************************)
NextApp ==
    \/ AddProjectPaths
    \/ GenerateOnce
    \/ OnGenerateRejected
    \/ \E j \in 1..Len(jobs) : CreateCvFor(j)
    \/ \E j \in 1..Len(jobs) : EnsureUniqueBase(j)
    \/ \E j \in 1..Len(jobs) : EnsureUniqueCand(j)
    \/ \E j \in 1..Len(jobs) : MkdirJobFolder(j)
    \/ \E j \in 1..Len(jobs) : StageCV(j)
    \/ \E j \in 1..Len(jobs) : CustomiseCvContent(j)
    \/ \E j \in 1..Len(jobs) : CompileCv(j)
    \/ \E j \in 1..Len(jobs) : CreateCoverLetterFor(j)
    \/ \E j \in 1..Len(jobs) : CustomiseCoverLetterContent(j)
    \/ \E j \in 1..Len(jobs) : CompileCl(j)
    \/ \E j \in 1..Len(jobs) : Finish(j)

SpecApp == InitRequest /\ [][NextApp]_vars

(***************************************************************************)
(* Claims about the pure functions.                                        *)
(***************************************************************************)
\* The escape sequence LaTeX defines for each control character.
EscapeSequenceOf(ch) ==
    CASE ch = "~" -> <<"\\", "t", "e", "x", "t", "a", "s", "c", "i", "i",
                       "t", "i", "l", "d", "e", "{", "}">>
      [] ch = "^" -> <<"\\", "t", "e", "x", "t", "a", "s", "c", "i", "i",
                       "c", "i", "r", "c", "u", "m", "{", "}">>
      [] ch = "\\" -> <<"\\", "t", "e", "x", "t", "b", "a", "c", "k",
                        "s", "l", "a", "s", "h", "{", "}">>
      [] OTHER -> <<"\\", ch>>

RECURSIVE LetterPrefixLen(_)
LetterPrefixLen(s) ==
    IF s # <<>> /\ Head(s) \in Letters THEN 1 + LetterPrefixLen(Tail(s)) ELSE 0

\* The text read as LaTeX reads it: a backslash followed by letters is a
\* control word (with the empty group that ends it, when there is one), a
\* backslash followed by another character is a control symbol, and any
\* other character stands for itself.
RECURSIVE LatexTokens(_)
LatexTokens(s) ==
    IF s = <<>> THEN <<>>
    ELSE IF Head(s) = "\\" /\ Len(s) >= 2
    THEN IF s[2] \in Letters
         THEN LET w == 1 + LetterPrefixLen(Tail(s))
                  n == IF Len(s) >= w + 2 /\ s[w + 1] = "{" /\ s[w + 2] = "}"
                       THEN w + 2 ELSE w
              IN  <<SubSeq(s, 1, n)>> \o LatexTokens(SubSeq(s, n + 1, Len(s)))
         ELSE <<SubSeq(s, 1, 2)>> \o LatexTokens(SubSeq(s, 3, Len(s)))
    ELSE <<<<Head(s)>>>> \o LatexTokens(Tail(s))

Count(x, s) == Cardinality({i \in 1..Len(s) : s[i] = x})

\* C5: the output of latex_escape holds the escape sequence of every control
\* character of the input, once per occurrence, and no bare control character.
C5_EscapedOutputHasNoBareSpecial ==
    esc_out # NotRun =>
        /\ \A ch \in SpecialChars :
              Count(EscapeSequenceOf(ch), LatexTokens(esc_out)) >= Count(ch, esc_in)
        /\ \A i \in 1..Len(LatexTokens(esc_out)) :
              LatexTokens(esc_out)[i] \notin {<<ch>> : ch \in SpecialChars}

\* The name with its letters lower-cased and every character outside
\* [a-z0-9 _-] deleted: two names differ only in case and in such characters
\* exactly when this is the same for both.
CaseAndPunctuationFree(s) == KeepSlugChars([i \in 1..Len(s) |-> Lower(s[i])])

\* C8: sanitize_name never returns the empty string, returns only characters
\* of [a-z0-9_-], and gives two names that differ only in letter case and in
\* characters outside [a-z0-9 _-] the same slug.
C8_SanitizeStable ==
    (slug_a # NotRun /\ slug_b # NotRun) =>
        /\ slug_a # <<>>
        /\ Range(slug_a) \subseteq SlugChars \cup Letters
        /\ (CaseAndPunctuationFree(san_a) = CaseAndPunctuationFree(san_b)
              => slug_a = slug_b)

\* An absolute path in the form the rewriter writes it, under the resource root.
IsResolvedUnderRoot(arg) ==
    /\ arg = <<"/">> \o JoinParts(PathParts(arg))
    /\ StartsWith(PathParts(arg), RESOURCE_ROOT)
    /\ DotDot \notin Range(PathParts(arg))

Returned == c_pc = "done" /\ c_result.kind = "returned"

FallbackUsed == c_latexmk \in {"missing", "spawn_error", "failed"}

\* C1 as stated: whenever latexmk is unavailable or fails, pdflatex runs
\* exactly twice, the second pass whatever the first returned, and the result
\* is success exactly when the second pass exited with 0.
C1_FallbackRunsTwice ==
    (Returned /\ FallbackUsed) =>
        /\ Len(c_passes) = 2
        /\ c_result.ok <=> (c_passes[2] = 0)

\* C1 amended: that holds when pdflatex can be started; when starting it
\* raises, the first attempt is the only one and the result is failure.
C1_FallbackRunsTwiceWhenStartable ==
    (c_pc = "done" /\ FallbackUsed) =>
        /\ c_result.kind = "returned"
        /\ IF "pdflatex" \in c_tools
           THEN /\ Len(c_passes) = 2
                /\ c_result.ok <=> (c_passes[2] = 0)
           ELSE /\ c_passes = <<>>
                /\ c_exc = "FileNotFoundError"
                /\ ~c_result.ok

\* latexmk failed, the first pdflatex pass failed, the second exited with 0
\* and the compile was reported as a success.
C1_Witness ==
    Returned /\ c_latexmk = "failed" /\ c_passes = <<1, 0>> /\ c_result.ok

\* C2 as stated: with clean_files, a failed compile leaves the log that was
\* there before the cleanup, and after a successful compile there is no log.
C2_LogKeptOnFailureOnly ==
    (Returned /\ c_args.clean_files) =>
        /\ (~c_result.ok /\ ".log" \in c_cleanup.before) => ".log" \in c_files
        /\ c_result.ok => ".log" \notin c_files

\* C2 amended: after a successful compile there is no log unless removing
\* it failed (clean_latex_junk swallows the error).
C2_LogKeptOnFailureRemovedOnSuccess ==
    (Returned /\ c_args.clean_files) =>
        /\ (~c_result.ok /\ ".log" \in c_cleanup.before) => ".log" \in c_files
        /\ (c_result.ok /\ ".log" \notin c_cleanup.failed) => ".log" \notin c_files

\* A failed compile whose cleanup removed the auxiliary file and kept the log.
C2_Witness ==
    /\ Returned /\ c_args.clean_files /\ ~c_result.ok
    /\ {".log", ".aux"} \subseteq c_cleanup.before
    /\ ".log" \in c_files /\ ".aux" \notin c_files

\* C9: compile_latex returns a result for every outcome of the toolchain,
\* never an exception; the result carries <dir>/<basename>.log, and a failure
\* carries a diagnostic message that holds the log path.
C9_AlwaysReturnsResult ==
    /\ c_pc \in {"start", "pdflatex", "success", "except"} => ENABLED NextCompile
    /\ c_pc = "done" =>
          /\ c_result.kind = "returned"
          /\ c_result.log_path = [dir |-> c_args.tex.dir,
                                  file |-> <<c_args.tex.base, ".log">>]
          /\ ~c_result.ok =>
                /\ c_result.hint # NoHint
                /\ c_result.hint[2] = c_result.log_path

\* Neither tool is installed, no log was ever written, and compile_latex
\* returned a failure with its hint.
C9_Witness ==
    /\ Returned /\ c_tools = {} /\ ".log" \notin c_files
    /\ ~c_result.ok /\ c_result.hint[1] = "FileNotFoundError"

(***************************************************************************)
(* Claims about customise_cv_content and customise_cover_letter_content.   *)
(***************************************************************************)
WroteCV == in_call.fn = "cv" /\ in_writes = 1
WroteCL == in_call.fn = "cl" /\ in_writes = 1

\* The id has no entry in id_to_path, or its file does not exist.
Offending(pid) == pid \notin DOMAIN id_to_path \/ id_to_path[pid] \notin in_disk

\* C4: when a selected id has no entry in id_to_path or no file,
\* customise_cv_content fails, reports exactly the offending ids, writes
\* nothing to the staged CV and starts no compilation.
C4_MissingModulesAbort ==
    (/\ in_pc # "ready" /\ in_call.fn = "cv" /\ in_orig # NoFile
     /\ \E i \in 1..Len(in_call.selected_ids) : Offending(in_call.selected_ids[i]))
    =>  /\ in_pc = "done"
        /\ in_ret = "False"
        /\ Range(in_ui.missing) = {pid \in Range(in_call.selected_ids) : Offending(pid)}
        /\ in_file = in_orig
        /\ in_writes = 0
        /\ c_pc = "idle"

\* Ids "1" (resolvable) and "99" (unregistered) were selected with
\* compilation asked for; the call failed reporting "99" alone.
C4_Witness ==
    /\ in_pc = "done" /\ in_call.fn = "cv" /\ in_orig # NoFile
    /\ in_call.selected_ids = <<"1", "99">> /\ in_call.compile_opt
    /\ in_ui.missing = <<"99">> /\ in_ret = "False"

\* Where line i of the document read is found in the document written: each
\* module-list marker line before it became one line per selected id.
WrittenIndex(i) ==
    i + Cardinality({j \in 1..(i - 1) : /\ HasMarker(PROJECTS_MARKER, in_orig[j])
                                        /\ ~HasMarker(SUMMARY_MARKER, in_orig[j])})
          * (Len(in_call.selected_ids) - 1)

FirstBodyLine(i) ==
    /\ HasMarker(BODY_MARKER, in_orig[i])
    /\ \A j \in 1..(i - 1) : ~HasMarker(BODY_MARKER, in_orig[j])

\* C6 as stated: in raw mode the line written for the summary marker is the
\* caller's summary character for character; the cover-letter body is
\* escaped whatever the raw-mode setting.
C6_RawSummaryVerbatim ==
    /\ (WroteCV /\ in_call.is_raw) =>
          \A i \in 1..Len(in_orig) :
              HasMarker(SUMMARY_MARKER, in_orig[i])
                  => in_file[WrittenIndex(i)] = in_call.text \o <<"\n">>
    /\ WroteCL =>
          \A i \in 1..Len(in_orig) :
              FirstBodyLine(i)
                  => in_file[i] = latex_escape(Strip(in_call.text)) \o <<"\n">>

\* C6 amended: in raw mode the line written is the caller's summary with its
\* leading and trailing whitespace stripped, not escaped.
C6_RawSummaryStrippedNotEscaped ==
    /\ (WroteCV /\ in_call.is_raw) =>
          \A i \in 1..Len(in_orig) :
              HasMarker(SUMMARY_MARKER, in_orig[i])
                  => in_file[WrittenIndex(i)] = Strip(in_call.text) \o <<"\n">>
    /\ WroteCL =>
          \A i \in 1..Len(in_orig) :
              FirstBodyLine(i)
                  => in_file[i] = latex_escape(Strip(in_call.text)) \o <<"\n">>

\* A raw summary with a control character and surrounding whitespace was
\* injected into a CV that has a summary marker after a module-list marker.
C6_Witness ==
    /\ WroteCV /\ in_call.is_raw
    /\ in_call.text = <<" ", "#", "a", " ", "\n">>
    /\ Len(in_call.selected_ids) = 2
    /\ \E i \in 2..Len(in_orig) :
          /\ HasMarker(SUMMARY_MARKER, in_orig[i])
          /\ HasMarker(PROJECTS_MARKER, in_orig[i - 1])

\* The lines with only the first line that holds the marker replaced.
RECURSIVE ReplaceFirst(_, _, _)
ReplaceFirst(lines, marker, replacement) ==
    IF lines = <<>> THEN <<>>
    ELSE IF HasMarker(marker, Head(lines)) THEN replacement \o Tail(lines)
    ELSE <<Head(lines)>> \o ReplaceFirst(Tail(lines), marker, replacement)

\* C10: injection replaces only the first line that holds a marker; every
\* later line with the same marker is left as it was.
C10_OnlyFirstMarkerLineReplaced ==
    /\ WroteCV =>
          in_file = ReplaceFirst(
                        ReplaceFirst(in_orig, SUMMARY_MARKER,
                            <<EscapedSummary(in_call.text, in_call.is_raw) \o <<"\n">>>>),
                        PROJECTS_MARKER,
                        ProjectInputs(in_call.selected_ids, id_to_path, in_disk))
    /\ WroteCL =>
          in_file = ReplaceFirst(in_orig, BODY_MARKER,
                                 <<latex_escape(Strip(in_call.text)) \o <<"\n">>>>)

(***************************************************************************)
(* Claims about the job folders.                                           *)
(***************************************************************************)
HasReturned(j) == jobs[j].job_folder # NoFolder

\* The folder ensure_unique_folder should pick for base when dirs exist:
\* base if it is free, else the candidate with the least free suffix.
FirstFree(base, dirs) ==
    IF base \notin dirs THEN base
    ELSE LET free == {k \in 1..(Cardinality(dirs) + 1) :
                         <<base[1], base[2] \o <<"_">> \o Decimal(k)>> \notin dirs}
         IN  <<base[1], base[2] \o <<"_">> \o
                 Decimal(CHOOSE k \in free : \A m \in free : k <= m)>>

\* C3: every call of ensure_unique_folder returns the base folder if it is
\* free and otherwise the base with the first free suffix _1, _2, ...; the
\* suffix goes on the leaf name only, and the returned path existed neither
\* when the call was made nor when it returned.
C3_UniqueFolderFirstFree ==
    \A j \in 1..Len(jobs) :
        HasReturned(j) =>
            /\ jobs[j].job_folder \notin jobs[j].dirs_call
            /\ jobs[j].job_folder \notin jobs[j].dirs_ret
            /\ jobs[j].job_folder = FirstFree(jobs[j].base_folder, jobs[j].dirs_ret)
            /\ jobs[j].job_folder[1] = jobs[j].base_folder[1]

\* With a/b there and nothing else, two calls for the same base, one after
\* the other, returned a/b_1 and then a/b_2.
C3_Witness ==
    /\ Len(jobs) = 2
    /\ \A j \in 1..2 : jobs[j].base_folder = <<<<"a">>, <<"b">>>>
    /\ jobs[1].dirs_call = {<<<<"a">>>>, <<<<"a">>, <<"b">>>>}
    /\ jobs[1].job_folder = <<<<"a">>, <<"b", "_", "1">>>>
    /\ jobs[1].job_folder \in jobs[2].dirs_call
    /\ jobs[2].job_folder = <<<<"a">>, <<"b", "_", "2">>>>

\* The \input line for the module that id_to_path registers under pid.
DirectiveFor(pid) == <<"\\input{">> \o id_to_path[pid] \o <<"}", "\n">>

\* C11: when every selected id resolves to an existing file, each
\* module-list marker line is replaced by exactly one \input line per
\* selected id, in the order of the ids (a repeated id gives a repeated
\* line), each naming the path id_to_path holds for its id.
C11_OneInputPerSelectedIdInOrder ==
    (WroteCV /\ \A k \in 1..Len(in_call.selected_ids) : ~Offending(in_call.selected_ids[k]))
    =>  /\ Len(in_file) = WrittenIndex(Len(in_orig) + 1) - 1
        /\ \A i \in 1..Len(in_orig) :
              (HasMarker(PROJECTS_MARKER, in_orig[i]) /\ ~HasMarker(SUMMARY_MARKER, in_orig[i]))
              => \A k \in 1..Len(in_call.selected_ids) :
                     in_file[WrittenIndex(i) + k - 1] = DirectiveFor(in_call.selected_ids[k])

\* The same id selected twice, injected into a CV with a module-list marker.
C11_Witness ==
    /\ WroteCV
    /\ in_call.selected_ids = <<"2", "2">>
    /\ \E i \in 1..Len(in_orig) : HasMarker(PROJECTS_MARKER, in_orig[i])

\* C12: under every interleaving of the generation workers no two workers
\* obtain the same job folder, and no two write the same staged CV path.
C12_WorkersGetDistinctFolders ==
    \A i, j \in 1..Len(jobs) :
        (i # j /\ HasReturned(i) /\ HasReturned(j))
        =>  /\ jobs[i].job_folder # jobs[j].job_folder
            /\ (jobs[i].cv_path # NoFolder /\ jobs[j].cv_path # NoFolder)
                   => jobs[i].cv_path # jobs[j].cv_path

(***************************************************************************)
(* Claims about the module registry.                                       *)
(***************************************************************************)
RegistryLoaded == reg_pc \in {"loaded", "exit"}

\* C13: in every registry state no two modules of the project list have the
\* same resolved path.
C13_NoTwoModulesShareAPath ==
    RegistryLoaded =>
        \A i, j \in 1..Len(projects) : i # j => projects[i].path # projects[j].path

\* C20: in every registry state the module ids are pairwise distinct and
\* id_to_path maps the id of every listed module to that module's own path.
C20_IdsDistinctAndMappedToOwnPath ==
    RegistryLoaded =>
        /\ \A i, j \in 1..Len(projects) : i # j => projects[i].id # projects[j].id
        /\ \A i \in 1..Len(projects) :
              /\ projects[i].id \in DOMAIN id_to_path
              /\ id_to_path[projects[i].id] = projects[i].path

\* A worker of some request is between its start and its end.
WorkerRunning == \E j \in 1..Len(jobs) : jobs[j].pc \notin {"failed", "ended"}

\* C14: once the registry is loaded, no step changes the module list or the
\* id-to-path mapping; in particular none does while a worker is running.
C14_RegistryNeverMutatedAfterLoad ==
    [][reg_pc = "loaded" => (projects' = projects /\ id_to_path' = id_to_path)]_vars

(***************************************************************************)
(* Claims about one generation request.                                    *)
(***************************************************************************)
\* The step has been finished by job j with this outcome.
Did(j, step, ok) == <<step, ok>> \in Range(jobs[j].steps)

\* The request of job j has an empty required field, wants a cover letter
\* without a body, or selects a module id that does not resolve to a file.
InvalidRequest(j) ==
    \/ jobs[j].role_title = <<>> \/ jobs[j].company = <<>>
    \/ jobs[j].job_link = <<>> \/ jobs[j].summary = <<>>
    \/ jobs[j].selected_ids = <<>>
    \/ (jobs[j].want_cl /\ jobs[j].cl_body = <<>>)
    \/ \E k \in 1..Len(jobs[j].selected_ids) :
          IsMissing(jobs[j].selected_ids[k], id_to_path, in_disk)

\* C15: a request is fully validated before the pipeline starts: for an
\* invalid request no job folder is created and no template is staged.
C15_InvalidRequestCreatesNothing ==
    \A j \in 1..Len(jobs) :
        InvalidRequest(j) =>
            /\ ~Did(j, "folder", TRUE)
            /\ jobs[j].job_folder \notin fs_dirs
            /\ jobs[j].cv_path = NoFolder

\* The worker of job j has ended.
WorkerEnded(j) == jobs[j].pc \in {"failed", "ended"}

\* C16: a missing template is fatal to its own document only.  In a request
\* for both documents, with the CV template missing and the cover-letter
\* template present the worker has staged and filled the cover letter by
\* the time it ends; with the cover-letter template missing the CV that was
\* generated is still there.
C16_MissingTemplateFatalToItsDocumentOnly ==
    \A j \in 1..Len(jobs) :
        jobs[j].want_cl =>
            /\ (WorkerEnded(j) /\ ~tpl_cv /\ tpl_cl)
                   => (Did(j, "stage_cl", TRUE) /\ Did(j, "inject_cl", TRUE))
            /\ Did(j, "template_cl", FALSE)
                   => (jobs[j].cv_path # NoFolder /\ Did(j, "inject_cv", TRUE))

(***************************************************************************)
(* Claims about the course of compile_latex.                               *)
(***************************************************************************)
\* The steps of the state machine: Start to TryPrimaryTool's two exits, the
\* fallback's passes and its two exits, then the return.
CompileTransition ==
    \/ c_pc = "start" /\ c_pc' \in {"success", "pdflatex"}
    \/ c_pc = "pdflatex" /\ c_pc' \in {"pdflatex", "success", "except"}
    \/ c_pc \in {"success", "except"} /\ c_pc' = "done"

\* C17: compile_latex goes from Start through the primary tool to Done or
\* to the fallback and from there to Done or Failed; the fallback runs only
\* after the primary tool was unavailable or failed, never after it
\* succeeded, and the result is success exactly when the primary tool
\* succeeded or the second pass of the fallback exited with 0.
C17_CompileStateMachine ==
    /\ [][c_pc' # c_pc => CompileTransition]_vars
    /\ []((c_passes # <<>> \/ c_pc \in {"pdflatex", "except"}) => FallbackUsed)
    /\ [](c_latexmk = "ok" => (c_passes = <<>> /\ c_exc = NoException))
    /\ [](c_pc = "done" =>
             /\ c_result.kind = "returned"
             /\ c_result.ok <=> \/ c_latexmk = "ok"
                                \/ (Len(c_passes) = 2 /\ c_passes[2] = 0))

\* latexmk could not be started, both pdflatex passes exited with 0 and
\* compile_latex returned success.
C17_Witness ==
    Returned /\ c_latexmk = "spawn_error" /\ c_passes = <<0, 0>> /\ c_result.ok

\* The steps of a request in the order the claim gives them.
StepOrder == <<"folder", "stage_cv", "inject_cv", "compile_cv",
               "stage_cl", "inject_cl", "compile_cl">>

StepRank(step) == CHOOSE r \in 1..Len(StepOrder) : StepOrder[r] = step

IsStep(entry) == entry[1] \in Range(StepOrder)

\* The document a step works on; the folder is shared by both.
DocumentOf(step) ==
    IF step \in {"stage_cv", "inject_cv", "compile_cv"} THEN "cv"
    ELSE IF step \in {"stage_cl", "inject_cl", "compile_cl"} THEN "cl"
    ELSE "both"

\* The step that must have succeeded before this one may run.
StepBefore(step) ==
    CASE step = "stage_cv" -> "folder"
      [] step = "inject_cv" -> "stage_cv"
      [] step = "compile_cv" -> "inject_cv"
      [] step = "stage_cl" -> "inject_cv"
      [] step = "inject_cl" -> "stage_cl"
      [] step = "compile_cl" -> "inject_cl"

\* C18: within one request the steps run in the order folder creation,
\* staging, injection, compilation, for the CV and then for the cover
\* letter; a step runs only after the step before it has finished with
\* success, and no step of a document runs after a step of that document
\* (or the folder creation) failed.
C18_StepsInOrder ==
    \A j \in 1..Len(jobs) :
        LET steps == SelectSeq(jobs[j].steps, IsStep)
        IN  /\ \A a, b \in 1..Len(steps) :
                  a < b => StepRank(steps[a][1]) < StepRank(steps[b][1])
            /\ \A b \in 1..Len(steps) :
                  steps[b][1] # "folder" =>
                      \E a \in 1..(b - 1) : steps[a] = <<StepBefore(steps[b][1]), TRUE>>
            /\ \A a, b \in 1..Len(steps) :
                  (a < b /\ ~steps[a][2]) =>
                      /\ DocumentOf(steps[a][1]) # "both"
                      /\ DocumentOf(steps[b][1]) # DocumentOf(steps[a][1])

\* A request for both documents went through all seven steps.
C18_Witness ==
    \E j \in 1..Len(jobs) :
        /\ jobs[j].pc = "ended"
        /\ SelectSeq(jobs[j].steps, IsStep) = [r \in 1..Len(StepOrder) |-> <<StepOrder[r], TRUE>>]

(***************************************************************************)
(* Claims about the rewritten references.                                  *)
(***************************************************************************)
\* The path has a directory named modules: a whole segment "modules" that
\* is followed by a slash.
HasModulesSegment(arg) ==
    \E i \in 1..(Len(SplitPath(arg, <<>>)) - 1) : SplitPath(arg, <<>>)[i] = <<"modules">>

\* A reference LaTeX accepts: \input{path} or \includegraphics[opts]{path}.
IsReference(item) ==
    /\ item.kind = "ref"
    /\ item.cmd = "includegraphics" \/ item.opts = NoOpts

\* An absolute path below the resource root.
IsAbsoluteUnderRoot(arg) ==
    /\ arg # <<>> /\ Head(arg) = "/"
    /\ StartsWith(PathParts(arg), RESOURCE_ROOT)
    /\ DotDot \notin Range(PathParts(arg))

\* C19: after the rewrite every \input and \includegraphics reference that
\* pointed into the modules tree by a relative path (leading ../ or ./, ..
\* segments in the middle) has an absolute path under the resource root as
\* its argument; the directive name and the options are kept; a reference
\* that does not point into the modules tree is unchanged.
C19_ModuleReferencesAbsoluteUnderRoot ==
    (rw_calls >= 1 /\ rw_utf8) =>
        \A i \in 1..Len(rw_orig) :
            /\ rw_once[i].kind = rw_orig[i].kind
            /\ IsReference(rw_orig[i]) =>
                  /\ rw_once[i].cmd = rw_orig[i].cmd
                  /\ rw_once[i].opts = rw_orig[i].opts
                  /\ (PathAnchor(rw_orig[i].arg) = <<>> /\ HasModulesSegment(rw_orig[i].arg))
                         => IsAbsoluteUnderRoot(rw_once[i].arg)
                  /\ ~HasModulesSegment(rw_orig[i].arg) => rw_once[i] = rw_orig[i]

====
